---- MODULE Spec2Model ----
(***************************************************************************)
(* Model of pkg/source/file/job.go (loggie): the per-file tracking unit    *)
(* "Job", its lifecycle, identity, cursor bookkeeping and event            *)
(* production.                                                             *)
(*                                                                         *)
(* Spec            one Job, its methods called whole and in any order,     *)
(*                 with a reader that hands it the lines of its file.      *)
(* SpecRotate      the file is moved and replaced between activations.     *)
(* SpecTail        a fresh Job tails a growing file line by line.          *)
(* SpecResume      activation at a stored offset of a changing file.       *)
(* SpecEvent       ProductEvent with any end offset and body.              *)
(* SpecIdentifier  GenerateIdentifier over a changing file and path.       *)
(* SpecSame        IsSame on any two Jobs.                                 *)
(* SpecConc        a scanning and a reading actor on one Job, interleaved  *)
(*                 line by line.                                           *)
(* SpecScope       WatchUid of two Jobs of tasks with any names.           *)
(* SpecIndex       Jobs created by two actors; the uint32 index counter.   *)
(* SpecReplay      lines read from the Job's nextOffset, which the owner   *)
(*                 sets between reads.                                     *)
(* SpecActivate    activation with failing system calls on a file that is  *)
(*                 moved and replaced.                                     *)
(***************************************************************************)
EXTENDS Integers, Sequences, FiniteSets, TLC

(***************************************************************************)
(* Bounds of the model.                                                    *)
(***************************************************************************)
MaxFileLen == 3      \* longest file content, in bytes
MaxEvents == 2       \* ProductEvent calls per behaviour
MaxEof == 1          \* end-of-file observations counted by the reader
MaxConcEvents == 1   \* ProductEvent calls per behaviour of the two actors
MaxJobs == 3         \* Jobs created per behaviour
MaxOffset == MaxFileLen      \* largest offset passed to NextOffset / ProductEvent
MaxBody == MaxFileLen - 1    \* longest line body passed to ProductEvent
FirstNBytesForIdentifier == 2   \* task.config.FirstNBytesForIdentifier

(***************************************************************************)
(* Program constants (job.go:33-40).                                       *)
(***************************************************************************)
JobActive == 1
JobDelete == 2
JobStop == 3
JobStopImmediately == 999

JobStatusZero == 0                 \* zero value of JobStatus (a fresh Job)
Statuses == {JobActive, JobDelete, JobStop, JobStopImmediately}

Nil == "nil"                       \* nil pointer, nil error
NilStatus == 0 - 1                 \* an atomic.Value never stored to
ZeroTime == "0001-01-01"           \* time.Time{}
Instants == {"2021-07-04"}   \* what time.Now() can return

(***************************************************************************)
(* The file system.  A path names a file (device, inode) or nothing; a     *)
(* file has a content, a sequence of bytes.                                *)
(***************************************************************************)
NL == "\n"
Bytes == {"x", NL}
Paths == {"a.log", "b.log"}
FileA == [ino |-> 7, dev |-> 1]
FileB == [ino |-> 12, dev |-> 1]
Files == {FileA, FileB}
NoFile == [ino |-> 0, dev |-> 0]

Task == [pipelineName |-> "pipe", sourceName |-> "src", epoch |-> "e1",
         config |-> [FirstNBytesForIdentifier |-> FirstNBytesForIdentifier]]

(***************************************************************************)
(* Strings.                                                                *)
(***************************************************************************)
Digit(d) == <<"0", "1", "2", "3", "4", "5", "6", "7", "8", "9">>[d + 1]

RECURSIVE AppendUint(_)
AppendUint(n) ==
    IF n < 10 THEN Digit(n) ELSE AppendUint(n \div 10) \o Digit(n % 10)

FormatInt(n) == IF n < 0 THEN "-" \o AppendUint(0 - n) ELSE AppendUint(n)

JobUid(fileInfo) == AppendUint(fileInfo.ino) \o "-" \o AppendUint(fileInfo.dev)

WatchJobId(pipelineName, sourceName, jobUid) ==
    pipelineName \o ":" \o sourceName \o ":" \o jobUid

RECURSIVE Concat(_)
Concat(bs) == IF bs = <<>> THEN "" ELSE Head(bs) \o Concat(Tail(bs))

Md5Hex(buf) == "md5:" \o Concat(buf)

RECURSIVE CountNL(_)
CountNL(bs) ==
    IF bs = <<>> THEN 0
    ELSE (IF Head(bs) = NL THEN 1 ELSE 0) + CountNL(Tail(bs))

Min(a, b) == IF a < b THEN a ELSE b

Prefix(bs, n) == SubSeq(bs, 1, Min(n, Len(bs)))

VARIABLES
    j,               \* the Job (job.go:46-67)
    globalJobIndex,  \* job.go:42
    fds,             \* open file descriptions: handle -> [file, pos]
    dir,             \* path -> file
    data,            \* file -> content
    sink,            \* events delivered to task.productFunc
    ret,             \* the last method call and what it returned
    deleteCalled,    \* history: Delete() has been called on the Job
    other,           \* the argument of IsSame: a pointer (Nil, "j" for the
                     \* Job itself, "k" for another Job) and the Job it points to
    conc,            \* two actors on the Job: the line each is about to run
    made             \* the Jobs created in the process: the counter when the
                     \* behaviour starts, the indices given out since, and
                     \* the line each creating actor is about to run

vars ==
    <<j, globalJobIndex, fds, dir, data, sink, ret, deleteCalled, other, conc,
      made>>

Handles == {"h1", "h2"}
Closed == [file |-> NoFile, pos |-> 0]
ContentA == <<"x", NL>>          \* the watched file when the Job is created
ContentB == <<NL, "x", "x">>     \* the file created after a rotation

(***************************************************************************)
(* WatchUid caches its result in the Job (job.go:91-99): the value and the *)
(* Job after the call.                                                     *)
(***************************************************************************)
WatchUidValue(job) ==
    IF job.watchUid # "" THEN job.watchUid
    ELSE WatchJobId(job.task.pipelineName, job.task.sourceName, job.uid)

WatchUidJob(job) ==
    IF job.watchUid # "" THEN job
    ELSE [job EXCEPT !.watchUid = WatchUidValue(job),
                     !.watchUidLen = Len(WatchUidValue(job))]

(***************************************************************************)
(* globalJobIndex and Job.index are uint32 (job.go:42, 50), held as two    *)
(* 16-bit limbs; atomic.AddUint32 wraps to 0 after 2^32 - 1.               *)
(***************************************************************************)
Limb == 65536
Zero32 == [hi |-> 0, lo |-> 0]

Less32(a, b) == a.hi < b.hi \/ (a.hi = b.hi /\ a.lo < b.lo)

jobIndex(counter) ==
    IF counter.lo = Limb - 1
    THEN [hi |-> (counter.hi + 1) % Limb, lo |-> 0]
    ELSE [counter EXCEPT !.lo = counter.lo + 1]

First32 == jobIndex(Zero32)
Second32 == jobIndex(First32)

newJobWithUid(task, filename, jobUid, idx) ==
    [task |-> task, uid |-> jobUid, watchUid |-> "", watchUidLen |-> 0, index |-> idx,
     filename |-> filename, aFileName |-> filename, file |-> Nil,
     status |-> JobStatusZero, aStatus |-> NilStatus,
     endOffset |-> 0, nextOffset |-> 0,
     currentLineNumber |-> 0, currentLines |-> 0, eofCount |-> 0,
     lastActiveTime |-> ZeroTime, deleteTime |-> ZeroTime,
     renameTime |-> ZeroTime, identifier |-> ""]

NewJob(task, filename, fileInfo, idx) ==
    newJobWithUid(task, filename, JobUid(fileInfo), idx)

NoJob == [uid |-> Nil]             \* the nil *Job
NilPointer == [ptr |-> Nil, job |-> NoJob]

(***************************************************************************)
(* The scanning actor (watcher) and the reading actor (reader) work on the *)
(* same Job.  conc holds, per actor, the line of job.go it runs next (Idle *)
(* between calls) and the arguments of the scanner's call; signal is the   *)
(* status the scanner stored last, observed whether a Sync of the reader   *)
(* has loaded it since, pending the signal that stood when the reader's    *)
(* current Sync was called.                                                *)
(***************************************************************************)
Idle == "idle"
Creators == {"c1", "c2"}
NoneMade(counter) ==
    [first |-> counter, issued |-> <<>>, pc |-> [a \in Creators |-> Idle],
     got |-> [a \in Creators |-> Zero32]]
Quiet ==
    [scan |-> Idle, scanOp |-> "", scanStatus |-> JobStatusZero,
     scanName |-> "", read |-> Idle, signal |-> NilStatus,
     observed |-> TRUE, pending |-> NilStatus]

Init ==
    /\ dir = [p \in Paths |-> IF p = "a.log" THEN FileA ELSE NoFile]
    /\ data = [f \in Files |-> IF f = FileA THEN ContentA ELSE ContentB]
    /\ fds = [h \in Handles |-> Closed]
    /\ globalJobIndex = First32
    /\ j = NewJob(Task, "a.log", FileA, First32)
    /\ sink = <<>>
    /\ ret = [op |-> "NewJob", err |-> Nil, bool |-> FALSE]
    /\ deleteCalled = FALSE
    /\ other = NilPointer
    /\ conc = Quiet
    /\ made = NoneMade(globalJobIndex)

(***************************************************************************)
(* ret records the last call on the Job: for a method with a result its    *)
(* name and the error (Nil for none) or boolean it returned, for a method  *)
(* without result Void, for a run-time panic the error Panic.  A panic     *)
(* ends the program.                                                       *)
(***************************************************************************)
Panic == "panic"
Running == ret.err # Panic

Returns(op, err) == ret' = [op |-> op, err |-> err, bool |-> FALSE]

Void == "void"
Returned == Returns(Void, Nil)

ReturnsBool(op, bool) == ret' = [op |-> op, err |-> Nil, bool |-> bool]

Now == Instants                    \* time.Now()

FreeHandle == IF fds["h1"] = Closed THEN "h1" ELSE "h2"
HasFreeHandle == \E h \in Handles : fds[h] = Closed

(***************************************************************************)
(* util.LineCountTo(offset, fileName) is not part of this source file: it  *)
(* opens fileName and counts the line delimiters in its first offset bytes.*)
(***************************************************************************)
LineCountTo(offset, fileName) == CountNL(Prefix(data[dir[fileName]], offset))

(***************************************************************************)
(* Job.Delete, Job.IsDelete, Job.Stop, Job.ChangeStatusTo (job.go:108-124) *)
(***************************************************************************)
ChangeStatusToJob(job, status) ==
    [job EXCEPT !.status = status, !.aStatus = status]

ChangeStatusTo(status) ==
    /\ Running
    /\ j' = ChangeStatusToJob(j, status)
    /\ Returned
    /\ UNCHANGED <<globalJobIndex, fds, dir, data, sink, deleteCalled, other, conc, made>>

Stop ==
    /\ Running
    /\ j' = ChangeStatusToJob(j, JobStop)
    /\ Returned
    /\ UNCHANGED <<globalJobIndex, fds, dir, data, sink, deleteCalled, other, conc, made>>

DeleteJobStatusOnly(job, t) == ChangeStatusToJob(job, JobDelete)

DeleteJob(job, t) ==
    [ChangeStatusToJob(job, JobDelete) EXCEPT !.deleteTime = t]

Delete ==
    /\ Running
    /\ \E t \in Now : j' = DeleteJob(j, t)
    /\ deleteCalled' = TRUE
    /\ Returned
    /\ UNCHANGED <<globalJobIndex, fds, dir, data, sink, other, conc, made>>

IsDelete(job) == job.status = JobDelete \/ job.deleteTime # ZeroTime

(***************************************************************************)
(* Job.Release (job.go:126-136)                                            *)
(***************************************************************************)
ReleaseLeavesHandle ==
    /\ Running
    /\ fds' = IF j.file = Nil THEN fds ELSE [fds EXCEPT ![j.file] = Closed]
    /\ Returned
    /\ UNCHANGED <<j, globalJobIndex, dir, data, sink, deleteCalled, other, conc, made>>

Release ==
    /\ Running
    /\ IF j.file = Nil
       THEN UNCHANGED <<j, fds>>
       ELSE /\ fds' = [fds EXCEPT ![j.file] = Closed]
            /\ j' = [j EXCEPT !.file = Nil]
    /\ Returned
    /\ UNCHANGED <<globalJobIndex, dir, data, sink, deleteCalled, other, conc, made>>

(***************************************************************************)
(* Job.Sync (job.go:138-141): the type assertion on an atomic.Value that   *)
(* was never stored panics.                                                *)
(***************************************************************************)
Sync ==
    /\ Running
    /\ IF j.aStatus = NilStatus
       THEN /\ Returns(Void, Panic)
            /\ UNCHANGED j
       ELSE /\ j' = [j EXCEPT !.status = j.aStatus, !.filename = j.aFileName]
            /\ Returned
    /\ UNCHANGED <<globalJobIndex, fds, dir, data, sink, deleteCalled, other, conc, made>>

(***************************************************************************)
(* Job.RenameTo, Job.IsRename (job.go:143-151)                             *)
(***************************************************************************)
RenameToJob(job, newFilename, t) ==
    [job EXCEPT !.filename = newFilename, !.aFileName = newFilename,
                !.renameTime = t]

RenameTo(newFilename) ==
    /\ Running
    /\ \E t \in Now : j' = RenameToJob(j, newFilename, t)
    /\ Returned
    /\ UNCHANGED <<globalJobIndex, fds, dir, data, sink, deleteCalled, other, conc, made>>

IsRename(job) == job.renameTime # ZeroTime

(***************************************************************************)
(* Job.Active (job.go:153-195).  fault names the system call that the      *)
(* environment makes fail in this call, if it is reached.                  *)
(***************************************************************************)
ActiveFaults == {"none", "open", "stat", "seek", "count"}

Activated(job, t) ==
    [job EXCEPT !.status = JobActive, !.aStatus = JobActive,
                !.eofCount = 0, !.lastActiveTime = t]

ActiveOpened(job, fault) ==
    IF job.file # Nil
    THEN [job |-> job, fds |-> fds, err |-> Nil]
    ELSE IF dir[job.filename] = NoFile \/ fault = "open" \/ ~HasFreeHandle
    THEN [job |-> job, fds |-> fds, err |-> "ErrOpen"]
    ELSE
      LET h == FreeHandle
          f == dir[job.filename]
          opened == [job EXCEPT !.file = h]
          atStart == [fds EXCEPT ![h] = [file |-> f, pos |-> 0]]
          atNext == [fds EXCEPT ![h] = [file |-> f, pos |-> job.nextOffset]]
      IN
      IF fault = "stat"
      THEN [job |-> opened, fds |-> atStart, err |-> "ErrStat"]
      ELSE IF job.uid # JobUid(f)
      THEN [job |-> opened, fds |-> atStart, err |-> "ErrIdentityChanged"]
      ELSE IF job.nextOffset = 0
      THEN [job |-> opened, fds |-> atStart, err |-> Nil]
      ELSE IF fault = "seek"
      THEN [job |-> opened, fds |-> atStart, err |-> "ErrSeek"]
      ELSE IF job.currentLineNumber # 0
      THEN [job |-> opened, fds |-> atNext, err |-> Nil]
      ELSE IF fault = "count"
      THEN [job |-> opened, fds |-> atNext, err |-> "ErrLineCount"]
      ELSE [job |-> [opened EXCEPT !.currentLineNumber =
                         LineCountTo(job.nextOffset, job.filename)],
            fds |-> atNext, err |-> Nil]

ActiveResultEager(job, fault, t) ==
    LET r == ActiveOpened(job, fault) IN [r EXCEPT !.job = Activated(r.job, t)]

ActiveResult(job, fault, t) ==
    LET r == ActiveOpened(job, fault) IN
    IF r.err = Nil THEN [r EXCEPT !.job = Activated(r.job, t)] ELSE r

Active ==
    /\ Running
    /\ \E fault \in ActiveFaults, t \in Now :
         LET r == ActiveResult(j, fault, t) IN
         /\ j' = r.job
         /\ fds' = r.fds
         /\ Returns("Active", r.err)
    /\ UNCHANGED <<globalJobIndex, dir, data, sink, deleteCalled, other, conc, made>>

(***************************************************************************)
(* Job.NextOffset (job.go:197-201)                                         *)
(***************************************************************************)
NextOffsetJob(job, offset) ==
    IF offset > 0 THEN [job EXCEPT !.nextOffset = offset] ELSE job

NextOffset(offset) ==
    /\ Running
    /\ j' = NextOffsetJob(j, offset)
    /\ Returned
    /\ UNCHANGED <<globalJobIndex, fds, dir, data, sink, deleteCalled, other, conc, made>>

(***************************************************************************)
(* Job.GenerateIdentifier (job.go:203-231)                                 *)
(***************************************************************************)
IdentifierFaults == {"none", "open", "read"}

GenerateIdentifierResultRecompute(job, fault) ==
    IF dir[job.filename] = NoFile
    THEN [job |-> job, err |-> "ErrStat"]
    ELSE
      LET readSize == job.task.config.FirstNBytesForIdentifier
          content == data[dir[job.filename]]
          readBuffer == Prefix(content, readSize)
      IN
      IF Len(content) < readSize
      THEN [job |-> job, err |-> "ErrTooSmall"]
      ELSE IF fault = "open" \/ ~HasFreeHandle
      THEN [job |-> job, err |-> "ErrOpen"]
      ELSE IF fault = "read"
      THEN [job |-> job, err |-> "ErrRead"]
      ELSE [job |-> [job EXCEPT !.identifier = Md5Hex(readBuffer)],
            err |-> Nil]

GenerateIdentifierResult(job, fault) ==
    IF job.identifier # ""
    THEN [job |-> job, err |-> Nil]
    ELSE IF dir[job.filename] = NoFile
    THEN [job |-> job, err |-> "ErrStat"]
    ELSE
      LET readSize == job.task.config.FirstNBytesForIdentifier
          content == data[dir[job.filename]]
          fileSize == Len(content)
          readBuffer == Prefix(content, readSize)
          l == Len(readBuffer)
      IN
      IF fileSize < readSize
      THEN [job |-> job, err |-> "ErrTooSmall"]
      ELSE IF fault = "open" \/ ~HasFreeHandle
      THEN [job |-> job, err |-> "ErrOpen"]
      ELSE IF fault = "read"
      THEN [job |-> job, err |-> "ErrRead"]
      ELSE IF l < readSize
      THEN [job |-> job, err |-> "ErrShortRead"]
      ELSE [job |-> [job EXCEPT !.identifier = Md5Hex(readBuffer)],
            err |-> Nil]

GenerateIdentifier ==
    /\ Running
    /\ \E fault \in IdentifierFaults :
         LET r == GenerateIdentifierResult(j, fault) IN
         /\ j' = r.job
         /\ Returns("GenerateIdentifier", r.err)
    /\ UNCHANGED <<globalJobIndex, fds, dir, data, sink, deleteCalled, other, conc, made>>

(***************************************************************************)
(* Job.WatchUid called as an accessor (job.go:91-99)                       *)
(***************************************************************************)
WatchUid ==
    /\ Running
    /\ j' = WatchUidJob(j)
    /\ Returned
    /\ UNCHANGED <<globalJobIndex, fds, dir, data, sink, deleteCalled, other, conc, made>>

(***************************************************************************)
(* Job.ProductEvent (job.go:250-292)                                       *)
(***************************************************************************)
Bodies == UNION {[1..n -> {"x"}] : n \in 0..MaxBody}

ProductEventJobAtDelimiter(job, endOffset) ==
    WatchUidJob([job EXCEPT !.currentLineNumber = job.currentLineNumber + 1,
                            !.currentLines = job.currentLines + 1,
                            !.endOffset = endOffset,
                            !.nextOffset = endOffset])

ProductEventJob(job, endOffset) ==
    WatchUidJob([job EXCEPT !.currentLineNumber = job.currentLineNumber + 1,
                            !.currentLines = job.currentLines + 1,
                            !.endOffset = endOffset,
                            !.nextOffset = endOffset + 1])

ProductEventFieldsNoDelimiter(job, endOffset, collectTime, body, startOffset) ==
    LET after == ProductEventJob(job, endOffset)
    IN [Epoch |-> job.task.epoch,
        PipelineName |-> job.task.pipelineName,
        SourceName |-> job.task.sourceName,
        Offset |-> startOffset,
        NextOffset |-> endOffset + 1,
        LineNumber |-> after.currentLineNumber,
        Filename |-> after.filename,
        CollectTime |-> collectTime,
        ContentBytes |-> Len(body),
        JobUid |-> after.uid,
        JobIndex |-> after.index,
        watchUid |-> WatchUidValue(job),
        EventUid |-> WatchUidValue(job) \o "-" \o FormatInt(endOffset)]

ProductEventFields(job, endOffset, collectTime, body, startOffset) ==
    LET nextOffset == endOffset + 1
        contentBytes == Len(body)
        after == ProductEventJob(job, endOffset)
    IN [Epoch |-> job.task.epoch,
        PipelineName |-> job.task.pipelineName,
        SourceName |-> job.task.sourceName,
        Offset |-> startOffset,
        NextOffset |-> nextOffset,
        LineNumber |-> after.currentLineNumber,
        Filename |-> after.filename,
        CollectTime |-> collectTime,
        ContentBytes |-> contentBytes + 1,
        JobUid |-> after.uid,
        JobIndex |-> after.index,
        watchUid |-> WatchUidValue(job),
        EventUid |-> WatchUidValue(job) \o "-" \o FormatInt(endOffset)]

ProductEventStateDrift(job, endOffset, collectTime, body) ==
    ProductEventFields(job, endOffset, collectTime, body,
                       (endOffset + 1) - Len(body))

ProductEventState(job, endOffset, collectTime, body) ==
    ProductEventFields(job, endOffset, collectTime, body,
                       (endOffset + 1) - Len(body) - 1)

ProductEvent(endOffset, collectTime, body) ==
    /\ Running
    /\ Len(sink) < MaxEvents
    /\ j' = ProductEventJob(j, endOffset)
    /\ sink' = Append(sink,
                      [header |-> ProductEventState(j, endOffset, collectTime, body),
                       body |-> [i \in 1..Len(body) |-> body[i]]])
    /\ Returned

(***************************************************************************)
(* The reading actor (outside this source file) reads the next complete    *)
(* line through the Job's handle and hands it to ProductEvent with the     *)
(* offset of the line's delimiter.  It keeps ProductEvent's calling        *)
(* convention: the line is the one that starts at the Job's nextOffset.    *)
(***************************************************************************)
LineEnds(content, pos) ==
    {e \in pos..(Len(content) - 1) : content[e + 1] = NL}

LeastOf(S) == CHOOSE e \in S : \A o \in S : e <= o

ReadLine ==
    /\ j.file # Nil
    /\ LET h == j.file
           content == data[fds[h].file]
           pos == fds[h].pos
       IN /\ pos = j.nextOffset
          /\ LineEnds(content, pos) # {}
          /\ LET endOffset == LeastOf(LineEnds(content, pos))
                 body == SubSeq(content, pos + 1, endOffset)
             IN /\ \E t \in Now : ProductEvent(endOffset, t, body)
                /\ fds' = [fds EXCEPT ![h].pos = endOffset + 1]
    /\ UNCHANGED <<globalJobIndex, dir, data, deleteCalled, other, conc, made>>

(***************************************************************************)
(* The environment: other processes append to the watched file, truncate   *)
(* it, rename it and create a new file under its old name; the reading     *)
(* actor counts an end of file.                                            *)
(***************************************************************************)
AppendByte(b) ==
    /\ Len(data[FileA]) < MaxFileLen
    /\ data' = [data EXCEPT ![FileA] = Append(data[FileA], b)]
    /\ UNCHANGED <<j, globalJobIndex, fds, dir, sink, ret, deleteCalled, other, conc, made>>

Truncate ==
    /\ data[FileA] # <<>>
    /\ data' = [data EXCEPT ![FileA] = <<>>]
    /\ UNCHANGED <<j, globalJobIndex, fds, dir, sink, ret, deleteCalled, other, conc, made>>

Relink(p, f) ==
    /\ dir[p] # f
    /\ \A q \in Paths : f # NoFile => dir[q] # f
    /\ dir' = [dir EXCEPT ![p] = f]
    /\ UNCHANGED <<j, globalJobIndex, fds, data, sink, ret, deleteCalled, other, conc, made>>

MoveFile(p, q) ==
    /\ dir[p] # NoFile
    /\ p # q
    /\ dir' = [dir EXCEPT ![p] = NoFile, ![q] = dir[p]]
    /\ UNCHANGED <<j, globalJobIndex, fds, data, sink, ret, deleteCalled, other, conc, made>>

ReaderEOF ==
    /\ Running
    /\ j.file # Nil
    /\ j.eofCount < MaxEof
    /\ j' = [j EXCEPT !.eofCount = j.eofCount + 1]
    /\ Returned
    /\ UNCHANGED <<globalJobIndex, fds, dir, data, sink, deleteCalled, other, conc, made>>

CallProductEvent ==
    /\ \E endOffset \in 0..MaxOffset, body \in Bodies, t \in Now :
           ProductEvent(endOffset, t, body)
    /\ UNCHANGED <<globalJobIndex, fds, dir, data, deleteCalled, other, conc, made>>

(***************************************************************************)
(* Spec: the life cycle of one Job, every method called in any order.      *)
(***************************************************************************)
Next ==
    \/ \E status \in Statuses : ChangeStatusTo(status)
    \/ Stop
    \/ Delete
    \/ Release
    \/ Sync
    \/ \E newFilename \in Paths : RenameTo(newFilename)
    \/ Active
    \/ \E offset \in -1..MaxOffset : NextOffset(offset)
    \/ ReadLine

Spec == Init /\ [][Next]_vars

(***************************************************************************)
(* SpecRotate: the watched file is renamed, removed and replaced by a new  *)
(* file under the old name while the Job is activated and released.        *)
(***************************************************************************)
NextRotate ==
    \/ Active
    \/ Release
    \/ Stop
    \/ Sync
    \/ \E newFilename \in Paths : RenameTo(newFilename)
    \/ \E offset \in -1..MaxOffset : NextOffset(offset)
    \/ \E p, q \in Paths : MoveFile(p, q)
    \/ \E p \in Paths, f \in Files \cup {NoFile} : Relink(p, f)

SpecRotate == Init /\ [][NextRotate]_vars

(***************************************************************************)
(* SpecTail: a fresh Job tails a file that only grows.                     *)
(***************************************************************************)
NextTail ==
    \/ Active
    \/ Release
    \/ Stop
    \/ ReadLine
    \/ ReaderEOF
    \/ \E b \in Bytes : AppendByte(b)

SpecTail == Init /\ [][NextTail]_vars

(***************************************************************************)
(* SpecResume: a Job is given offsets to resume from, over a file that     *)
(* grows and is truncated.                                                 *)
(***************************************************************************)
NextResume ==
    \/ Active
    \/ Release
    \/ \E offset \in -1..MaxOffset : NextOffset(offset)
    \/ \E b \in Bytes : AppendByte(b)
    \/ Truncate

SpecResume == Init /\ [][NextResume]_vars

(***************************************************************************)
(* SpecEvent: ProductEvent called with any offset and body.                *)
(***************************************************************************)
NextEvent ==
    \/ CallProductEvent
    \/ \E offset \in -1..MaxOffset : NextOffset(offset)
    \/ WatchUid

SpecEvent == Init /\ [][NextEvent]_vars

(***************************************************************************)
(* SpecIdentifier: the fingerprint of a file that grows, is truncated,     *)
(* renamed and replaced.                                                   *)
(***************************************************************************)
NextIdentifier ==
    \/ GenerateIdentifier
    \/ \E newFilename \in Paths : RenameTo(newFilename)
    \/ Sync
    \/ Stop
    \/ \E b \in Bytes : AppendByte(b)
    \/ Truncate
    \/ \E p, q \in Paths : MoveFile(p, q)
    \/ \E p \in Paths, f \in Files \cup {NoFile} : Relink(p, f)

SpecIdentifier == Init /\ [][NextIdentifier]_vars

(***************************************************************************)
(* Job.IsSame (job.go:233-244).  ptr tells whether the argument is nil,    *)
(* the receiver itself or another Job.  Both WatchUid() calls cache.       *)
(***************************************************************************)
IsSameIgnoringIdentifier(job, ptr, otherJob) ==
    IF ptr = Nil THEN FALSE
    ELSE IF ptr = "j" THEN TRUE
    ELSE WatchUidValue(job) = WatchUidValue(otherJob)

IsSameValue(job, ptr, otherJob) ==
    IF ptr = Nil THEN FALSE
    ELSE IF ptr = "j" THEN TRUE
    ELSE IF WatchUidValue(job) # WatchUidValue(otherJob) THEN FALSE
    ELSE job.identifier = otherJob.identifier

IsSame ==
    /\ ReturnsBool("IsSame", IsSameValue(j, other.ptr, other.job))
    /\ IF other.ptr = "k"
       THEN /\ j' = WatchUidJob(j)
            /\ other' = [other EXCEPT !.job = WatchUidJob(other.job)]
       ELSE UNCHANGED <<j, other, conc>>
    /\ UNCHANGED <<globalJobIndex, fds, dir, data, sink, deleteCalled, conc, made>>

OtherIsSame ==
    /\ other.ptr = "k"
    /\ ReturnsBool("OtherIsSame", IsSameValue(other.job, "k", j))
    /\ j' = WatchUidJob(j)
    /\ other' = [other EXCEPT !.job = WatchUidJob(other.job)]
    /\ UNCHANGED <<globalJobIndex, fds, dir, data, sink, deleteCalled, conc, made>>

(***************************************************************************)
(* SpecSame: two Jobs of any two tasks, files and fingerprints, compared   *)
(* in both directions.                                                     *)
(***************************************************************************)
Tasks ==
    {[Task EXCEPT !.pipelineName = p, !.sourceName = n] :
        p \in {"pipe", "pipe2"}, n \in {"src", "src2"}}

Identifiers == {"", Md5Hex(<<"x", NL>>), Md5Hex(<<NL, "x">>)}

SameJobs ==
    {[NewJob(t, "a.log", f, First32) EXCEPT !.identifier = i] :
        t \in Tasks, f \in Files, i \in Identifiers}

InitSame ==
    /\ dir = [p \in Paths |-> IF p = "a.log" THEN FileA ELSE NoFile]
    /\ data = [f \in Files |-> IF f = FileA THEN ContentA ELSE ContentB]
    /\ fds = [h \in Handles |-> Closed]
    /\ globalJobIndex = Second32
    /\ j \in SameJobs
    /\ \/ other = NilPointer
       \/ other = [ptr |-> "j", job |-> j]
       \/ \E k \in SameJobs :
            other = [ptr |-> "k", job |-> [k EXCEPT !.index = Second32]]
    /\ sink = <<>>
    /\ ret = [op |-> "NewJob", err |-> Nil, bool |-> FALSE]
    /\ deleteCalled = FALSE
    /\ conc = Quiet
    /\ made = NoneMade(globalJobIndex)

NextSame ==
    \/ IsSame
    \/ OtherIsSame

SpecSame == InitSame /\ [][NextSame]_vars

(***************************************************************************)
(* Two actors on one Job.  The scanning actor calls Stop, Delete,          *)
(* ChangeStatusTo and RenameTo; the reading actor calls Sync, Active,      *)
(* IsDelete, IsRename, Release and ProductEvent.  Each call is cut at the  *)
(* lines of job.go that touch a field another line of the other actor      *)
(* touches; a step runs the lines up to the next cut.                      *)
(***************************************************************************)
ScanBegins(op, status, newFilename, line) ==
    /\ Running
    /\ conc.scan = Idle
    /\ conc' = [conc EXCEPT !.scan = line, !.scanOp = op,
                            !.scanStatus = status, !.scanName = newFilename]
    /\ UNCHANGED <<j, globalJobIndex, fds, dir, data, sink, ret, other, made>>

StopCall ==
    /\ ScanBegins("Stop", JobStop, "", "L122")
    /\ UNCHANGED deleteCalled

DeleteCall ==
    /\ ScanBegins("Delete", JobDelete, "", "L122")
    /\ deleteCalled' = TRUE

ChangeStatusToCall(status) ==
    /\ ScanBegins("ChangeStatusTo", status, "", "L122")
    /\ UNCHANGED deleteCalled

RenameToCall(newFilename) ==
    /\ ScanBegins("RenameTo", JobStatusZero, newFilename, "L144")
    /\ UNCHANGED deleteCalled

\* the scanner's call returns
ScanReturns(c) ==
    [c EXCEPT !.scan = Idle, !.scanOp = "", !.scanStatus = JobStatusZero,
              !.scanName = ""]

\* the status the scanner's store signals to the reader: Stop, Delete or none
Signal(status) == IF status \in {JobStop, JobDelete} THEN status ELSE NilStatus

ScanStep(line, job, after) ==
    /\ Running
    /\ conc.scan = line
    /\ j' = job
    /\ conc' = after
    /\ UNCHANGED <<globalJobIndex, fds, dir, data, sink, ret, deleteCalled, other, made>>

\* job.go:122  j.status = status
ChangeStatusToStatus ==
    ScanStep("L122", [j EXCEPT !.status = conc.scanStatus],
             [conc EXCEPT !.scan = "L123"])

\* job.go:123  j.aStatus.Store(status), and the return to Delete or the caller
ChangeStatusToStore ==
    ScanStep("L123", [j EXCEPT !.aStatus = conc.scanStatus],
             LET stored == [conc EXCEPT !.signal = Signal(conc.scanStatus),
                                        !.observed = FALSE]
             IN IF conc.scanOp = "Delete" THEN [stored EXCEPT !.scan = "L110"]
                ELSE ScanReturns(stored))

\* job.go:110  j.deleteTime = time.Now()
DeleteTime ==
    \E t \in Now :
        ScanStep("L110", [j EXCEPT !.deleteTime = t], ScanReturns(conc))

\* job.go:144  j.filename = newFilename
RenameToFilename ==
    ScanStep("L144", [j EXCEPT !.filename = conc.scanName],
             [conc EXCEPT !.scan = "L145"])

\* job.go:145  j.aFileName.Store(newFilename)
RenameToStore ==
    ScanStep("L145", [j EXCEPT !.aFileName = conc.scanName],
             [conc EXCEPT !.scan = "L146"])

\* job.go:146  j.renameTime = time.Now()
RenameToTime ==
    \E t \in Now :
        ScanStep("L146", [j EXCEPT !.renameTime = t], ScanReturns(conc))

ReadBegins(line) ==
    /\ Running
    /\ conc.read = Idle
    /\ conc' = [conc EXCEPT !.read = line,
                            !.pending = IF line = "L139" THEN conc.signal
                                        ELSE conc.pending]
    /\ UNCHANGED <<j, globalJobIndex, fds, dir, data, sink, ret, deleteCalled, other, made>>

SyncCall == ReadBegins("L139")
ActiveCall == ReadBegins("L153")
IsDeleteCall == ReadBegins("L114")
IsRenameCall == ReadBegins("L150")
ReleaseCall == ReadBegins("L127")
ProductEventCall == Len(sink) < MaxConcEvents /\ ReadBegins("L250")

ReadStep(line, job, next) ==
    /\ Running
    /\ conc.read = line
    /\ j' = job
    /\ conc' = [conc EXCEPT !.read = next,
                            !.pending = IF next = Idle THEN NilStatus
                                        ELSE conc.pending]
    /\ UNCHANGED <<globalJobIndex, dir, data, deleteCalled, other, made>>

\* job.go:139  j.status = j.aStatus.Load().(JobStatus)
SyncStatus ==
    /\ Running
    /\ conc.read = "L139"
    /\ IF j.aStatus = NilStatus
       THEN /\ Returns(Void, Panic)
            /\ conc' = [conc EXCEPT !.read = Idle, !.pending = NilStatus]
            /\ UNCHANGED j
       ELSE /\ j' = [j EXCEPT !.status = j.aStatus]
            /\ conc' = [conc EXCEPT !.read = "L140", !.observed = TRUE]
            /\ UNCHANGED ret
    /\ UNCHANGED <<globalJobIndex, fds, dir, data, sink, deleteCalled, other, made>>

\* job.go:140  j.filename = j.aFileName.Load().(string)
SyncFilename ==
    /\ ReadStep("L140", [j EXCEPT !.filename = j.aFileName], Idle)
    /\ Returned
    /\ UNCHANGED <<fds, sink>>

\* job.go:153-188  the reopen, up to its error return or to line 190
ActiveOpen ==
    /\ \E fault \in {"none"} :
         LET r == ActiveOpened(j, fault) IN
         /\ ReadStep("L153", r.job, IF r.err = Nil THEN "L190" ELSE Idle)
         /\ fds' = r.fds
         /\ IF r.err = Nil THEN UNCHANGED ret ELSE Returns("Active", r.err)
    /\ UNCHANGED sink

\* job.go:190  j.status = JobActive
ActiveStatus ==
    /\ ReadStep("L190", [j EXCEPT !.status = JobActive], "L191")
    /\ UNCHANGED <<fds, sink, ret>>

\* job.go:191  j.aStatus.Store(JobActive)
ActiveStore ==
    /\ ReadStep("L191", [j EXCEPT !.aStatus = JobActive], "L192")
    /\ UNCHANGED <<fds, sink, ret>>

\* job.go:192-194
ActiveDone ==
    /\ \E t \in Now :
         ReadStep("L192", [j EXCEPT !.eofCount = 0, !.lastActiveTime = t], Idle)
    /\ Returns("Active", Nil)
    /\ UNCHANGED <<fds, sink>>

\* job.go:114
IsDeleteRead ==
    /\ ReadStep("L114", j, Idle)
    /\ ReturnsBool("IsDelete", IsDelete(j))
    /\ UNCHANGED <<fds, sink>>

\* job.go:150
IsRenameRead ==
    /\ ReadStep("L150", j, Idle)
    /\ ReturnsBool("IsRename", IsRename(j))
    /\ UNCHANGED <<fds, sink>>

\* job.go:127-135
ReleaseClose ==
    /\ ReadStep("L127", [j EXCEPT !.file = Nil], Idle)
    /\ fds' = IF j.file = Nil THEN fds ELSE [fds EXCEPT ![j.file] = Closed]
    /\ Returned
    /\ UNCHANGED sink

\* job.go:251-291, for the empty line at the Job's nextOffset
ProductEventRun ==
    /\ conc.read = "L250"
    /\ \E t \in Now : ProductEvent(j.nextOffset, t, <<>>)
    /\ conc' = [conc EXCEPT !.read = Idle]
    /\ UNCHANGED <<globalJobIndex, fds, dir, data, deleteCalled, other, made>>

(***************************************************************************)
(* The fields of the Job that the next step of each actor reads or writes. *)
(***************************************************************************)
Reads(fields) == {[field |-> f, write |-> FALSE] : f \in fields}
Writes(fields) == {[field |-> f, write |-> TRUE] : f \in fields}

ScanAccess ==
    CASE conc.scan = "L122" -> Writes({"status"})
      [] conc.scan = "L123" -> Writes({"aStatus"})
      [] conc.scan = "L110" -> Writes({"deleteTime"})
      [] conc.scan = "L144" -> Writes({"filename"})
      [] conc.scan = "L145" -> Writes({"aFileName"})
      [] conc.scan = "L146" -> Writes({"renameTime"})
      [] OTHER -> {}

ReadAccess ==
    CASE conc.read = "L139" -> Reads({"aStatus"}) \cup Writes({"status"})
      [] conc.read = "L140" -> Reads({"aFileName"}) \cup Writes({"filename"})
      [] conc.read = "L153" ->
            IF j.file # Nil THEN Reads({"file"})
            ELSE Reads({"filename", "uid", "nextOffset"})
                    \cup Writes({"file", "currentLineNumber"})
      [] conc.read = "L190" -> Writes({"status"})
      [] conc.read = "L191" -> Writes({"aStatus"})
      [] conc.read = "L192" -> Writes({"eofCount", "lastActiveTime"})
      [] conc.read = "L114" ->
            Reads({"status"})
                \cup (IF j.status = JobDelete THEN {} ELSE Reads({"deleteTime"}))
      [] conc.read = "L150" -> Reads({"renameTime"})
      [] conc.read = "L127" ->
            IF j.file = Nil THEN Reads({"file"})
            ELSE Reads({"filename"}) \cup Writes({"file"})
      [] conc.read = "L250" ->
            Reads({"filename", "uid", "index", "task"})
                \cup Writes({"currentLineNumber", "currentLines", "endOffset",
                             "nextOffset", "watchUid", "watchUidLen"})
      [] OTHER -> {}

AtomicCells == {"aStatus", "aFileName"}

Conflicts ==
    {c \in ScanAccess \X ReadAccess :
        c[1].field = c[2].field /\ (c[1].write \/ c[2].write)}

(***************************************************************************)
(* SpecConc: every interleaving of the two actors' steps.  The scanner     *)
(* stops and deletes the Job, stops it immediately, and renames it to the  *)
(* other path; the file system stands still and no system call fails       *)
(* but the open of a path that names no file.                              *)
(***************************************************************************)
NextConc ==
    \/ StopCall
    \/ DeleteCall
    \/ \E status \in {JobStopImmediately} : ChangeStatusToCall(status)
    \/ \E newFilename \in {"b.log"} : RenameToCall(newFilename)
    \/ ChangeStatusToStatus
    \/ ChangeStatusToStore
    \/ DeleteTime
    \/ RenameToFilename
    \/ RenameToStore
    \/ RenameToTime
    \/ SyncCall
    \/ SyncStatus
    \/ SyncFilename
    \/ ActiveCall
    \/ ActiveOpen
    \/ ActiveStatus
    \/ ActiveStore
    \/ ActiveDone
    \/ IsDeleteCall
    \/ IsDeleteRead
    \/ IsRenameCall
    \/ IsRenameRead
    \/ ReleaseCall
    \/ ReleaseClose
    \/ ProductEventCall
    \/ ProductEventRun

SpecConc == Init /\ [][NextConc]_vars

(***************************************************************************)
(* SpecScope: two Jobs on the same file, of tasks whose pipeline and       *)
(* source names are any strings, the separator ":" among their characters; *)
(* each computes and caches its WatchUid().                                *)
(***************************************************************************)
Names == {"a", "a:b", "b", "b:c", "c"}

ScopeTasks ==
    {[Task EXCEPT !.pipelineName = p, !.sourceName = n] :
        p \in Names, n \in Names}

OtherWatchUid ==
    /\ Running
    /\ other.ptr = "k"
    /\ other' = [other EXCEPT !.job = WatchUidJob(other.job)]
    /\ Returned
    /\ UNCHANGED <<j, globalJobIndex, fds, dir, data, sink, deleteCalled, conc, made>>

InitScope ==
    /\ dir = [p \in Paths |-> IF p = "a.log" THEN FileA ELSE NoFile]
    /\ data = [f \in Files |-> IF f = FileA THEN ContentA ELSE ContentB]
    /\ fds = [h \in Handles |-> Closed]
    /\ globalJobIndex = Second32
    /\ \E t \in ScopeTasks : j = NewJob(t, "a.log", FileA, First32)
    /\ \E t \in ScopeTasks :
         other = [ptr |-> "k", job |-> NewJob(t, "a.log", FileA, Second32)]
    /\ sink = <<>>
    /\ ret = [op |-> "NewJob", err |-> Nil, bool |-> FALSE]
    /\ deleteCalled = FALSE
    /\ conc = Quiet
    /\ made = NoneMade(globalJobIndex)

NextScope ==
    \/ WatchUid
    \/ OtherWatchUid
    \/ IsSame

SpecScope == InitScope /\ [][NextScope]_vars

(***************************************************************************)
(* NewJob, newJobWithUid, jobIndex (job.go:294-312) called by two actors.  *)
(* A call is cut at atomic.AddUint32, the one access to shared state.      *)
(***************************************************************************)
\* job.go:294-301  JobUid(fileInfo), then newJobWithUid up to jobIndex()
NewJobCall(a) ==
    /\ Running
    /\ made.pc[a] = Idle
    /\ Len(made.issued) < MaxJobs
    /\ made' = [made EXCEPT !.pc[a] = "L311"]
    /\ UNCHANGED <<j, globalJobIndex, fds, dir, data, sink, ret, deleteCalled,
                   other, conc>>

\* job.go:311  atomic.AddUint32(&globalJobIndex, 1)
JobIndexAdd(a) ==
    /\ Running
    /\ made.pc[a] = "L311"
    /\ globalJobIndex' = jobIndex(globalJobIndex)
    /\ made' = [made EXCEPT !.pc[a] = "L306",
                            !.got[a] = jobIndex(globalJobIndex),
                            !.issued = Append(@, jobIndex(globalJobIndex))]
    /\ UNCHANGED <<j, fds, dir, data, sink, ret, deleteCalled, other, conc>>

\* job.go:300-307  the Job is built with the index and returned
NewJobReturn(a) ==
    /\ Running
    /\ made.pc[a] = "L306"
    /\ \E filename \in Paths, fileInfo \in Files :
         other' = [ptr |-> "k",
                   job |-> NewJob(Task, filename, fileInfo, made.got[a])]
    /\ made' = [made EXCEPT !.pc[a] = Idle, !.got[a] = Zero32]
    /\ UNCHANGED <<j, globalJobIndex, fds, dir, data, sink, ret, deleteCalled,
                   conc>>

(***************************************************************************)
(* SpecIndex: Jobs are created by two actors while the first Job of the    *)
(* process lives on.  The behaviour starts right after that first Job was  *)
(* created, or when 2^32 - 2 Jobs have been created so far.                *)
(***************************************************************************)
InitIndex ==
    /\ dir = [p \in Paths |-> IF p = "a.log" THEN FileA ELSE NoFile]
    /\ data = [f \in Files |-> IF f = FileA THEN ContentA ELSE ContentB]
    /\ fds = [h \in Handles |-> Closed]
    /\ globalJobIndex \in {First32, [hi |-> Limb - 1, lo |-> Limb - 2]}
    /\ j = NewJob(Task, "a.log", FileA, First32)
    /\ sink = <<>>
    /\ ret = [op |-> "NewJob", err |-> Nil, bool |-> FALSE]
    /\ deleteCalled = FALSE
    /\ other = NilPointer
    /\ conc = Quiet
    /\ made = NoneMade(globalJobIndex)

NextIndex ==
    \/ \E a \in Creators : NewJobCall(a)
    \/ \E a \in Creators : JobIndexAdd(a)
    \/ \E a \in Creators : NewJobReturn(a)
    \/ Stop
    \/ Delete
    \/ \E newFilename \in Paths : RenameTo(newFilename)
    \/ WatchUid

SpecIndex == InitIndex /\ [][NextIndex]_vars

(***************************************************************************)
(* SpecReplay: the owner activates and releases the Job, sets its          *)
(* nextOffset, and reads lines from the Job's nextOffset; the file grows.  *)
(***************************************************************************)
NextReplay ==
    \/ Active
    \/ Release
    \/ \E offset \in -1..MaxOffset : NextOffset(offset)
    \/ ReadLine
    \/ \E b \in Bytes : AppendByte(b)

SpecReplay == Init /\ [][NextReplay]_vars

(***************************************************************************)
(* SpecActivate: the Job is activated, stopped and released, its reader    *)
(* counts ends of file, its owner sets nextOffset, while the file is moved *)
(* and replaced; any system call of an activation may fail.                *)
(***************************************************************************)
NextActivate ==
    \/ Active
    \/ Release
    \/ Stop
    \/ ReaderEOF
    \/ \E offset \in -1..MaxOffset : NextOffset(offset)
    \/ \E p, q \in Paths : MoveFile(p, q)
    \/ \E p \in Paths, f \in Files \cup {NoFile} : Relink(p, f)

SpecActivate == Init /\ [][NextActivate]_vars

(***************************************************************************)
(* C1.  Every call ProductEvent(endOffset, t, body) delivers exactly one   *)
(* record, with Offset = endOffset - len(body), NextOffset = endOffset + 1,*)
(* ContentBytes = len(body) + 1, LineNumber = the Job's currentLineNumber  *)
(* after the call and EventUid = WatchUid() + "-" + decimal(endOffset);    *)
(* the Job then has endOffset = endOffset, nextOffset = endOffset + 1 and  *)
(* both line counters one greater than before.                             *)
(***************************************************************************)
C1_ProductEvent ==
    [][\A endOffset \in 0..MaxOffset, body \in Bodies, t \in Now :
          ProductEvent(endOffset, t, body) =>
            /\ Len(sink') = Len(sink) + 1
            /\ SubSeq(sink', 1, Len(sink)) = sink
            /\ sink'[Len(sink')].body = body
            /\ LET state == sink'[Len(sink')].header IN
               /\ state.Offset = endOffset - Len(body)
               /\ state.NextOffset = endOffset + 1
               /\ state.ContentBytes = Len(body) + 1
               /\ state.LineNumber = j'.currentLineNumber
               /\ state.EventUid =
                      WatchUidValue(j') \o "-" \o FormatInt(endOffset)
               /\ WatchUidValue(j') = "pipe:src:7-1"
            /\ j'.endOffset = endOffset
            /\ j'.nextOffset = endOffset + 1
            /\ j'.currentLineNumber = j.currentLineNumber + 1
            /\ j'.currentLines = j.currentLines + 1]_vars

C1_Witness ==
    /\ Len(sink) = 2
    /\ sink[2].header.EventUid = "pipe:src:7-1-3"
    /\ sink[2].header.Offset = 1
    /\ sink[2].header.ContentBytes = 3
    /\ sink[2].header.LineNumber = 2
    /\ j.nextOffset = 4

(***************************************************************************)
(* C2.  A file of n lines, each ended by one delimiter, tailed by a fresh  *)
(* Job from offset 0 with one ProductEvent per line in file order: after   *)
(* the n-th call currentLines = n, currentLineNumber = n and nextOffset is *)
(* the length of the file.                                                 *)
(***************************************************************************)
C2_TailedFile ==
    LET content == data[FileA]
        n == CountNL(content)
    IN (content[Len(content)] = NL /\ Len(sink) = n) =>
         /\ j.currentLines = n
         /\ j.currentLineNumber = n
         /\ j.nextOffset = Len(content)

C2_Witness ==
    /\ data[FileA] = <<"x", NL, NL>>
    /\ Len(sink) = 2
    /\ j.currentLines = 2
    /\ j.nextOffset = 3

(***************************************************************************)
(* C3.  No step of any Job operation leaves nextOffset smaller than it     *)
(* was.                                                                    *)
(***************************************************************************)
C3_NextOffsetMonotonic == [][j'.nextOffset >= j.nextOffset]_vars

(***************************************************************************)
(* C4.  Whenever Active() returns success on a Job that entered the call   *)
(* with nextOffset = N > 0 and currentLineNumber = 0, on a file whose      *)
(* first N bytes hold L line delimiters, currentLineNumber is L when the   *)
(* call returns.                                                           *)
(***************************************************************************)
C4_ResumeRecount ==
    [][(/\ Active
        /\ ret'.err = Nil
        /\ j.nextOffset > 0
        /\ j.currentLineNumber = 0
        /\ Len(data[dir[j.filename]]) >= j.nextOffset)
       => j'.currentLineNumber =
              CountNL(SubSeq(data[dir[j.filename]], 1, j.nextOffset))]_vars

(***************************************************************************)
(* C5.  When Active() returns the identity-changed error the handle it     *)
(* opened has been closed: the Job holds no handle and no descriptor is    *)
(* open.                                                                   *)
(***************************************************************************)
C5_ClosedOnIdentityChange ==
    (ret.op = "Active" /\ ret.err = "ErrIdentityChanged") =>
        (j.file = Nil /\ \A h \in Handles : fds[h] = Closed)

(***************************************************************************)
(* C6.  Cooperative cancellation.  When the scanner has signalled Stop or  *)
(* Delete before the reader calls Sync, and has written no newer status,   *)
(* then as that Sync returns the reader's working status is the signalled  *)
(* status; and no step of the reader overwrites a signal of the scanner    *)
(* that no Sync of the reader has loaded yet.                              *)
(***************************************************************************)
C6_SignalObserved ==
    [][/\ (/\ conc.read = "L140"
           /\ conc'.read = Idle
           /\ conc.pending \in {JobStop, JobDelete}
           /\ conc.signal = conc.pending
           /\ conc'.scan # "L123")
          => j'.status = conc.pending
       /\ (/\ conc.read # conc'.read
           /\ conc.signal \in {JobStop, JobDelete}
           /\ ~conc.observed)
          => j'.aStatus = j.aStatus]_vars

(***************************************************************************)
(* C7.  Whenever the next steps of the scanner and of the reader touch the *)
(* same field of the Job and one of them writes it, the field is one of    *)
(* the two atomic cells.                                                   *)
(***************************************************************************)
C7_OnlyAtomicCellsShared ==
    \A c \in Conflicts : c[1].field \in AtomicCells

C9_IsSame ==
    LET a == j
        b == other.job
        agree(x, y) == /\ WatchUidValue(x) = WatchUidValue(y)
                       /\ x.identifier = y.identifier
    IN /\ IsSameValue(a, other.ptr, b) =
              (other.ptr = "j" \/ (other.ptr # Nil /\ agree(a, b)))
       /\ ~IsSameValue(a, Nil, NoJob)
       /\ IsSameValue(a, "j", a)
       /\ other.ptr = "k" => IsSameValue(a, "k", b) = IsSameValue(b, "k", a)
       /\ (other.ptr = "k" /\ IsSameValue(a, "k", b)) =>
              \A c \in SameJobs :
                  ((WatchUidValue(c) = WatchUidValue(b))
                      # (c.identifier = b.identifier))
                  => ~IsSameValue(a, "k", c)
       /\ ret.op = "IsSame" =>
              ret.bool = (other.ptr = "j" \/ (other.ptr # Nil /\ agree(a, b)))
       /\ ret.op = "OtherIsSame" => ret.bool = agree(a, b)

C9_Witness ==
    /\ ret.op = "IsSame"
    /\ ret.bool
    /\ other.ptr = "k"
    /\ j.identifier # ""
    /\ j.watchUid = "pipe2:src:12-1"
    /\ other.job.watchUid = j.watchUid

(***************************************************************************)
(* C10.  Once Delete() has been called IsDelete() is true in every later   *)
(* state, whatever operations follow; IsDelete() is false in every state   *)
(* in which the working status is not Delete and Delete() has never been   *)
(* called.                                                                 *)
(***************************************************************************)
C10_DeleteSticky ==
    /\ deleteCalled => IsDelete(j)
    /\ (~deleteCalled /\ j.status # JobDelete) => ~IsDelete(j)

C10_Witness ==
    /\ deleteCalled
    /\ j.status = JobActive
    /\ j.aStatus = JobActive
    /\ j.file # Nil
    /\ IsDelete(j)

(***************************************************************************)
(* C11.  A Job holds at most one open handle, and every open handle is the *)
(* one in its file field; Release() with a handle held closes that handle, *)
(* which was open, and leaves file = nil; Release() with no handle held    *)
(* changes nothing; so a handle is closed once and repeated Release()      *)
(* calls leave the handle cleared.                                         *)
(***************************************************************************)
OpenHandles == {h \in Handles : fds[h] # Closed}

C11_ReleaseIdempotent ==
    [][/\ Cardinality(OpenHandles') <= 1
       /\ \A h \in OpenHandles' : j'.file = h
       /\ Release =>
            /\ j'.file = Nil
            /\ OpenHandles' = {}
            /\ j.file # Nil => (j.file \in OpenHandles /\ fds'[j.file] = Closed)
            /\ j.file = Nil => (j' = j /\ fds' = fds)]_vars

C11_Witness ==
    /\ j.file = Nil
    /\ OpenHandles = {}
    /\ j.status = JobActive
    /\ j.lastActiveTime # ZeroTime
    /\ ret.op = Void

(***************************************************************************)
(* C12.  Active() is idempotent: from every reachable state, with the file *)
(* system and the failing system call the same for both calls, a second    *)
(* Active() right after the first returns the same outcome and leaves the  *)
(* same handle, status (working and shared), nextOffset,                   *)
(* currentLineNumber and eofCount as the first.                            *)
(***************************************************************************)
C12_ActiveIdempotent ==
    \A fault \in ActiveFaults, t \in Now :
        LET once == ActiveResult(j, fault, t)
            twice == ActiveResult(once.job, fault, t)
        IN /\ twice.err = once.err
           /\ twice.job = once.job

(***************************************************************************)
(* C13.  WatchJobId(p, s, u) is injective in (p, s) for fixed u: two Jobs  *)
(* on the same file whose tasks differ in pipeline name or source name,    *)
(* whatever strings these are, have different WatchUid() values.           *)
(***************************************************************************)
C13_WatchJobIdInjective ==
    (/\ j.watchUid # ""
     /\ other.job.watchUid # ""
     /\ j.uid = other.job.uid
     /\ <<j.task.pipelineName, j.task.sourceName>>
            # <<other.job.task.pipelineName, other.job.task.sourceName>>)
    => j.watchUid # other.job.watchUid

(***************************************************************************)
(* C14.  Job indices are unique and increasing: every index given out is   *)
(* larger than every index given out before it, in this behaviour or       *)
(* before it started, so no two Jobs ever created share an index and none  *)
(* is reused; and the index of a Job never changes.                        *)
(***************************************************************************)
C14_IndexUniqueIncreasing ==
    [][/\ j'.index = j.index
       /\ LET issued == made'.issued IN
          /\ \A i \in 1..Len(issued) : Less32(made'.first, issued[i])
          /\ \A i, k \in 1..Len(issued) :
                 i < k => Less32(issued[i], issued[k])
          /\ \A i \in 1..Len(issued) : issued[i] # j'.index]_vars

(***************************************************************************)
(* C15.  Over the lifetime of a Job, across Active, Release, NextOffset    *)
(* and ProductEvent calls in which every ProductEvent is issued for a line *)
(* read from the Job's nextOffset, no two records delivered carry the same *)
(* EventUid.                                                               *)
(***************************************************************************)
C15_EventUidUnique ==
    \A i, k \in 1..Len(sink) :
        i # k => sink[i].header.EventUid # sink[k].header.EventUid

(***************************************************************************)
(* C16.  Sync() called in any reachable state, the state right after       *)
(* NewJob among them, completes and leaves the working status equal to the *)
(* shared status cell and the working filename equal to the shared         *)
(* filename cell, and changes no other field.                              *)
(***************************************************************************)
C16_SyncCompletes ==
    [][Sync =>
         /\ ret'.err # Panic
         /\ j'.status = j'.aStatus
         /\ j'.filename = j'.aFileName
         /\ j' = [j EXCEPT !.status = j'.status, !.filename = j'.filename]]_vars

(***************************************************************************)
(* C17.  Whenever Active() returns an error, the working status, the       *)
(* shared status cell, eofCount, lastActiveTime, nextOffset,               *)
(* currentLineNumber and currentLines are as before the call, and on an    *)
(* open failure the handle is still nil and no descriptor was opened;      *)
(* whenever it returns success, status is Active in the working copy and   *)
(* in the shared cell and eofCount is 0.                                   *)
(***************************************************************************)
C17_FailedActiveNoEffect ==
    [][Active =>
         /\ ret'.err # Nil =>
              /\ j'.status = j.status
              /\ j'.aStatus = j.aStatus
              /\ j'.eofCount = j.eofCount
              /\ j'.lastActiveTime = j.lastActiveTime
              /\ j'.nextOffset = j.nextOffset
              /\ j'.currentLineNumber = j.currentLineNumber
              /\ j'.currentLines = j.currentLines
         /\ ret'.err = "ErrOpen" => (j'.file = Nil /\ fds' = fds)
         /\ ret'.err = Nil =>
              /\ j'.status = JobActive
              /\ j'.aStatus = JobActive
              /\ j'.eofCount = 0]_vars

C17_Witness ==
    /\ ret.op = "Active"
    /\ ret.err = "ErrIdentityChanged"
    /\ j.status = JobStop
    /\ j.aStatus = JobStop
    /\ j.eofCount = 1
    /\ j.nextOffset = 2

(***************************************************************************)
(* C19.  Identity mismatch is fatal for the Job: in every state in which   *)
(* Active() has just returned success and the Job holds a handle, the file *)
(* behind the handle has the identity that is the Job's uid.               *)
(***************************************************************************)
C19_HandleIsOwnFile ==
    (ret.op = "Active" /\ ret.err = Nil /\ j.file # Nil) =>
        JobUid(fds[j.file].file) = j.uid

(***************************************************************************)
(* C20.  Byte-exact resume: whenever Active() has just returned success,   *)
(* the read position of the handle the Job holds is the Job's nextOffset,  *)
(* whatever calls went before.                                             *)
(***************************************************************************)
C20_ResumeAtNextOffset ==
    (ret.op = "Active" /\ ret.err = Nil) =>
        (j.file # Nil /\ fds[j.file].pos = j.nextOffset)

(***************************************************************************)
(* C18.  No drift in byte ranges: with each ProductEvent called for the    *)
(* bytes from the Job's nextOffset up to the next delimiter, every record  *)
(* has NextOffset - Offset = ContentBytes and holds the file's content in  *)
(* its range without the delimiter; its Offset is the nextOffset reading   *)
(* went on from, which is the NextOffset of the record before it when no   *)
(* call has moved nextOffset in between; and the Job's nextOffset becomes  *)
(* its NextOffset.                                                         *)
(***************************************************************************)
C18_RangesTile ==
    /\ [](\A i \in 1..Len(sink) :
            LET state == sink[i].header IN
            /\ state.NextOffset - state.Offset = state.ContentBytes
            /\ sink[i].body =
                   SubSeq(data[FileA], state.Offset + 1, state.NextOffset - 1)
            /\ data[FileA][state.NextOffset] = NL)
    /\ [][ReadLine =>
            LET state == sink'[Len(sink')].header IN
            /\ Len(sink') = Len(sink) + 1
            /\ state.Offset = j.nextOffset
            /\ j'.nextOffset = state.NextOffset
            /\ (Len(sink) > 0 /\ j.nextOffset = sink[Len(sink)].header.NextOffset)
                 => state.Offset = sink[Len(sink)].header.NextOffset]_vars

C18_Witness ==
    /\ Len(sink) = 2
    /\ sink[1].header.Offset = 1
    /\ sink[1].header.NextOffset = 2
    /\ sink[2].header.Offset = 2
    /\ sink[2].header.ContentBytes = 1
    /\ j.nextOffset = 3

====
